---- MODULE Spec2Model ----
(***************************************************************************)
(* A model of snmp_thermometer.ino: the ESP8266 SNMP thermometer.          *)
(*                                                                         *)
(* The firmware is single threaded.  setup() runs once, then loop() runs   *)
(* for ever; with the mode switch grounded setup() never returns and the   *)
(* configuration web server runs instead.  One action models one whole     *)
(* call of setup(), of loop(), or the service of one connection by the     *)
(* configuration server; the functions they call are operators that        *)
(* compute what the C code computes.  The status reader's loop need not    *)
(* end; SpecLive follows it one turn at a time.                            *)
(*                                                                         *)
(* Temperatures delivered by the sensor driver (a float, degrees C) are    *)
(* written in hundredths of a degree, so that 21.5 C is 2150.              *)
(***************************************************************************)
EXTENDS Integers, Sequences, FiniteSets, TLC

VARIABLES
    pc,             \* "boot", then "run" (loop) or "setup" (configuration server); "halt", "crash", "undefined"
    numSensors,     \* int numSensors
    currentSensor,  \* int currentSensor
    sensorTicks,    \* int sensorTicks
    ledTicks,       \* int ledTicks
    led,            \* red LED pin: "on" (LOW) or "off" (HIGH)
    sensors,        \* sensorType sensors[MAX_SENSORS]
    mibTree,        \* the uSNMP tree built by initMibTree
    eeprom,         \* the bytes of the emulated EEPROM
    eepromData,     \* eepromType eepromData, as its bytes
    httpRequest,    \* char httpRequest[255], and what lies behind it once overrun
    httpParams,     \* char *httpParams[16], as offsets into httpRequest
    strtokSave,     \* the position strtok keeps between calls
    httpDone,       \* boolean httpDone
    urlPtr,         \* char *urlPtr of the reader at work, as an offset into httpRequest
    ms,             \* unsigned long ms of the reader at work
    millis,         \* the clock when the reader at work last read it
    conns,          \* connections the configuration server has served
    httpOut,        \* what became of the connection just served, if any
    snmpResp,       \* what processSNMP answered in the latest loop()
    lastRead,       \* the sensor read issued by the latest loop(), if any
    polled,         \* sensor indices read in the current polling round
    tickInCycle,    \* loop() calls since boot, modulo SENSOR_TICKS
    lastGood        \* per sensor: the latest reading that was not the sentinel (the sentinel: none yet)

vars == << pc, numSensors, currentSensor, sensorTicks, ledTicks, led,
           sensors, mibTree, eeprom, eepromData, httpRequest, httpParams,
           strtokSave, httpDone, urlPtr, ms, millis, conns, httpOut,
           snmpResp, lastRead, polled, tickInCycle, lastGood >>

----------------------------------------------------------------------------
(* Program constants *)

SENSOR_TICKS == 50
LED_TICKS == 2
MAX_SENSORS == 4
ADDR_LEN == 8
\* DEVICE_DISCONNECTED_C of the DallasTemperature driver, -127 C, in hundredths
DEVICE_DISCONNECTED_C == -12700
\* family code of a DS18B20, first byte of its address (0x28)
DS18B20_FAMILY == 40

(* Bounds of the model *)

\* devices that may be present on the bus (one more than the table holds)
MaxDevices == 5

\* what a read of a sensor may deliver: the sentinel, 21.5 C, -6.25 C
Readings == { DEVICE_DISCONNECTED_C, 2150, -625 }

NoValue == "none"

----------------------------------------------------------------------------
(* Sensor store *)

SensorIdx == 0 .. (MAX_SENSORS - 1)

ZeroAddr == [i \in 1 .. ADDR_LEN |-> 0]

\* the initialiser of sensors[]: { "", 1111 }, { "", 2222 }, ...
InitialSensors ==
    [c \in SensorIdx |-> [addr |-> ZeroAddr, temperature |-> 1111 * (c + 1)]]

\* the address the driver reports for the c-th device found on the bus
DeviceAddress(c) ==
    [i \in 1 .. ADDR_LEN |-> IF i = 1 THEN DS18B20_FAMILY ELSE IF i = 2 THEN c + 1 ELSE 0]

\* C's (int) conversion of a quotient: truncation toward zero
TruncDiv(a, b) == IF a >= 0 THEN a \div b ELSE -((-a) \div b)

\* (int)(t * 10) with t given in hundredths of a degree
ScaleReading(t) == TruncDiv(t, 10)

\* initSensors: the device count, cut to the size of the table
SensorCount(found) == IF found > MAX_SENSORS THEN MAX_SENSORS ELSE found

\* initSensors: the addresses of the first n devices are stored
DiscoverSensors(sens, n) ==
    [c \in SensorIdx |->
        IF c < n THEN [sens[c] EXCEPT !.addr = DeviceAddress(c)] ELSE sens[c]]

\* a scheduler that stores whatever the driver delivers
StoredAfterReadUnchecked(old, t) == ScaleReading(t)

\* processSensors: the temperature stored after a read that delivered t
StoredAfterRead(old, t) ==
    IF t = DEVICE_DISCONNECTED_C THEN old ELSE ScaleReading(t)

\* a cursor that wraps at the size of the table, not at the sensor count
NextSensorWrapAtTable(cur, n) == IF cur + 1 = MAX_SENSORS THEN 0 ELSE cur + 1

\* processSensors: "next sensor to be polled"
NextSensor(cur, n) == IF cur + 1 = n THEN 0 ELSE cur + 1

\* ledOn(ticks) and ledOff(): the timer and the pin
LedOn(ticks) == [ledTicks |-> ticks, led |-> "on"]

\* processLED
ProcessLED(l) ==
    IF l.ledTicks # 0
    THEN IF l.ledTicks - 1 = 0
         THEN [ledTicks |-> 0, led |-> "off"]
         ELSE [ledTicks |-> l.ledTicks - 1, led |-> l.led]
    ELSE l

\* no read was issued
NoRead == [issued |-> FALSE]

\* a processSensors that stores the reading in the record of the next sensor
ProcessSensorsStoresAhead(s, t) ==
    IF s.sensorTicks - 1 # 0
    THEN [s EXCEPT !.sensorTicks = s.sensorTicks - 1, !.read = NoRead]
    ELSE LET lit == LedOn(LED_TICKS) IN
         IF s.numSensors = 0
         THEN [s EXCEPT !.sensorTicks = SENSOR_TICKS,
                        !.ledTicks = lit.ledTicks, !.led = lit.led,
                        !.read = NoRead]
         ELSE [s EXCEPT !.sensorTicks = SENSOR_TICKS,
                        !.ledTicks = lit.ledTicks, !.led = lit.led,
                        !.sensors[NextSensor(s.currentSensor, s.numSensors)].temperature =
                            StoredAfterRead(s.sensors[s.currentSensor].temperature, t),
                        !.currentSensor = NextSensor(s.currentSensor, s.numSensors),
                        !.read = [issued |-> TRUE, idx |-> s.currentSensor, t |-> t]]

\* processSensors, one call.  s holds the scheduler's variables, t is what
\* the driver delivers if a read is issued.  The result also tells whether
\* a read was issued (read) and on which sensor.
ProcessSensors(s, t) ==
    IF s.sensorTicks - 1 # 0
    THEN [s EXCEPT !.sensorTicks = s.sensorTicks - 1, !.read = NoRead]
    ELSE LET lit == LedOn(LED_TICKS) IN
         IF s.numSensors = 0
         THEN [s EXCEPT !.sensorTicks = SENSOR_TICKS,
                        !.ledTicks = lit.ledTicks, !.led = lit.led,
                        !.read = NoRead]
         ELSE [s EXCEPT !.sensorTicks = SENSOR_TICKS,
                        !.ledTicks = lit.ledTicks, !.led = lit.led,
                        !.sensors[s.currentSensor].temperature =
                            StoredAfterRead(s.sensors[s.currentSensor].temperature, t),
                        !.currentSensor = NextSensor(s.currentSensor, s.numSensors),
                        !.read = [issued |-> TRUE, idx |-> s.currentSensor, t |-> t]]

----------------------------------------------------------------------------
(* Management object tree *)

\* the uSNMP prefixes "B" (mib-2) and "P" (enterprises), and SENSOR_OID
OidB == << 1, 3, 6, 1, 2, 1 >>
OidP == << 1, 3, 6, 1, 4, 1 >>
SENSOR_OID == OidP \o << 56234, 1, 2, 1 >>

\* the object of column col for table index k: "%s.<col>.%d"
SensorOid(col, k) == SENSOR_OID \o << col, k >>

\* the per-sensor nodes initMibTree registers for sensor c (0-based): the
\* address node is given sensors[c].addr, ADDR_LEN bytes, as its value
SensorNodes(sens, c) ==
    << [oid |-> SensorOid(2, c + 1), type |-> "OCTET_STRING", callback |-> "getSensorAddress",
        value |-> sens[c].addr],
       [oid |-> SensorOid(3, c + 1), type |-> "INTEGER", callback |-> "getTemperature",
        value |-> 0] >>

\* rows for every slot of the table from c on, whatever the count
SensorRowsWholeTable(sens, c, n) ==
    [i \in 1 .. 2 * (MAX_SENSORS - c) |->
        SensorNodes(sens, c + (i - 1) \div 2)[((i - 1) % 2) + 1]]

RECURSIVE SensorRows(_, _, _)
\* the for loop of initMibTree, c .. n-1
SensorRows(sens, c, n) ==
    IF c >= n THEN << >> ELSE SensorNodes(sens, c) \o SensorRows(sens, c + 1, n)

\* initMibTree: the three system objects, then the rows of the sensors found
InitMibTree(sens, n) ==
    << [oid |-> OidB \o << 1, 1, 0 >>, type |-> "OCTET_STRING", callback |-> NoValue,
        value |-> "sysDescr"],
       [oid |-> OidB \o << 1, 3, 0 >>, type |-> "TIMETICKS", callback |-> "getUptime",
        value |-> 0],
       [oid |-> OidB \o << 1, 6, 0 >>, type |-> "OCTET_STRING", callback |-> NoValue,
        value |-> "sysLocation"] >>
    \o SensorRows(sens, 0, n)

\* a callback that returns the value set when the node was registered
GetTemperatureRegistered(node, sens) == node.value

\* getTemperature: the index is the last component of the node's oid, less one
GetTemperature(node, sens) == sens[node.oid[Len(node.oid)] - 1].temperature

\* getSensorAddress
GetSensorAddress(node, sens) == sens[node.oid[Len(node.oid)] - 1].addr

NotFound == [found |-> FALSE]

\* The agent's lookup of one object: the node with that oid, its callback
\* run before the value is returned.  (getUptime returns millis() / 10, which
\* the model does not follow: "uptime".)
Resolve(tree, sens, oid) ==
    LET hits == { i \in 1 .. Len(tree) : tree[i].oid = oid } IN
    IF hits = {} THEN NotFound
    ELSE LET node == tree[CHOOSE i \in hits : \A j \in hits : i <= j] IN
         [found |-> TRUE, type |-> node.type,
          value |-> CASE node.callback = "getTemperature" -> GetTemperature(node, sens)
                      [] node.callback = "getSensorAddress" -> GetSensorAddress(node, sens)
                      [] node.callback = "getUptime" -> "uptime"
                      [] OTHER -> node.value]

\* no request is waiting: the empty identifier
NoRequest == << >>

\* The tree after the agent has looked up oid: the callback of the node
\* found has stored its value in the node (thisMib -> u).
TreeAfter(tree, sens, oid) ==
    [i \in 1 .. Len(tree) |->
        IF tree[i].oid = oid /\ tree[i].callback # NoValue
              /\ \A j \in 1 .. (i - 1) : tree[j].oid # oid
        THEN [tree[i] EXCEPT !.value = Resolve(tree, sens, oid).value]
        ELSE tree[i]]

NoResponse == [asked |-> FALSE]

\* processSNMP, one call: the request waiting, if any, is answered
ProcessSNMP(tree, sens, req) ==
    IF req = NoRequest THEN NoResponse
    ELSE [asked |-> TRUE, oid |-> req, resp |-> Resolve(tree, sens, req)]

\* the objects an SNMP manager asks for in the model
SnmpRequests ==
    { SensorOid(1, 1), SensorOid(3, 1), SensorOid(3, MAX_SENSORS + 1) }

----------------------------------------------------------------------------
(* Bytes, memory and the C string functions the web servers use *)

NUL == 0
LF == 10
CR == 13
\* an erased flash byte, 0xFF
ERASED == 255

\* the codes of the printable characters
Ascii ==
    (" " :> 32) @@ ("!" :> 33) @@ ("#" :> 35) @@ ("%" :> 37) @@
    ("&" :> 38) @@ ("+" :> 43) @@ ("," :> 44) @@ ("-" :> 45) @@
    ("." :> 46) @@ ("/" :> 47) @@ ("0" :> 48) @@ ("1" :> 49) @@
    ("2" :> 50) @@ ("3" :> 51) @@ ("4" :> 52) @@ ("5" :> 53) @@
    ("6" :> 54) @@ ("7" :> 55) @@ ("8" :> 56) @@ ("9" :> 57) @@
    (":" :> 58) @@ ("<" :> 60) @@ ("=" :> 61) @@
    (">" :> 62) @@ ("?" :> 63) @@ ("A" :> 65) @@
    ("B" :> 66) @@ ("C" :> 67) @@ ("D" :> 68) @@ ("E" :> 69) @@
    ("F" :> 70) @@ ("G" :> 71) @@ ("H" :> 72) @@ ("I" :> 73) @@
    ("J" :> 74) @@ ("K" :> 75) @@ ("L" :> 76) @@ ("M" :> 77) @@
    ("N" :> 78) @@ ("O" :> 79) @@ ("P" :> 80) @@ ("Q" :> 81) @@
    ("R" :> 82) @@ ("S" :> 83) @@ ("T" :> 84) @@ ("U" :> 85) @@
    ("V" :> 86) @@ ("W" :> 87) @@ ("X" :> 88) @@ ("Y" :> 89) @@
    ("Z" :> 90) @@ ("_" :> 95) @@ ("a" :> 97) @@ ("b" :> 98) @@
    ("c" :> 99) @@ ("d" :> 100) @@ ("e" :> 101) @@ ("f" :> 102) @@
    ("g" :> 103) @@ ("h" :> 104) @@ ("i" :> 105) @@ ("j" :> 106) @@
    ("k" :> 107) @@ ("l" :> 108) @@ ("m" :> 109) @@ ("n" :> 110) @@
    ("o" :> 111) @@ ("p" :> 112) @@ ("q" :> 113) @@ ("r" :> 114) @@
    ("s" :> 115) @@ ("t" :> 116) @@ ("u" :> 117) @@ ("v" :> 118) @@
    ("w" :> 119) @@ ("x" :> 120) @@ ("y" :> 121) @@ ("z" :> 122)

\* the bytes of a text given character by character
Str(t) == [i \in 1 .. Len(t) |-> Ascii[t[i]]]

\* a null pointer; other pointers are offsets from the start of httpRequest
NULLPTR == -1

Min(S) == CHOOSE x \in S : \A y \in S : x <= y

\* A char array that starts zeroed is kept as the part of it written so far:
\* the byte at offset o, and the array after a store at offset o.
MemGet(mem, o) == IF o < Len(mem) THEN mem[o + 1] ELSE NUL

MemPut(mem, o, b) ==
    IF o < Len(mem) THEN [mem EXCEPT ![o + 1] = b]
    ELSE mem \o [i \in 1 .. (o - Len(mem)) |-> NUL] \o << b >>

\* strlen of the string at offset o
StrLen(mem, o) ==
    IF o >= Len(mem) THEN 0
    ELSE CHOOSE n \in 0 .. (Len(mem) - o) :
             /\ MemGet(mem, o + n) = NUL
             /\ \A j \in 0 .. (n - 1) : MemGet(mem, o + j) # NUL

\* the string at offset o, without its terminating NUL
CStr(mem, o) == [i \in 1 .. StrLen(mem, o) |-> MemGet(mem, o + i - 1)]

\* strncmp(mem, s, Len(s)) == 0
StrNEq(mem, s) == \A i \in 1 .. Len(s) : MemGet(mem, i - 1) = s[i]

\* strtok(s, delims) of newlib.  st holds the buffer (mem) and strtok's
\* saved position (save); s is an offset or NULLPTR.  The result holds the
\* token (an offset or NULLPTR), the buffer with the token's end marked,
\* and the new saved position.
Strtok(st, s, delims) ==
    LET from == IF s = NULLPTR THEN st.save ELSE s IN
    IF from = NULLPTR THEN [tok |-> NULLPTR, mem |-> st.mem, save |-> NULLPTR]
    ELSE LET limit == IF Len(st.mem) > from THEN Len(st.mem) ELSE from
             tok == CHOOSE i \in from .. limit :
                        /\ MemGet(st.mem, i) \notin delims
                        /\ \A j \in from .. (i - 1) : MemGet(st.mem, j) \in delims
         IN IF MemGet(st.mem, tok) = NUL
            THEN [tok |-> NULLPTR, mem |-> st.mem, save |-> NULLPTR]
            ELSE LET end == CHOOSE i \in tok .. limit :
                                /\ MemGet(st.mem, i) \in delims \cup { NUL }
                                /\ \A j \in tok .. (i - 1) :
                                       MemGet(st.mem, j) \notin delims \cup { NUL }
                 IN IF MemGet(st.mem, end) = NUL
                    THEN [tok |-> tok, mem |-> st.mem, save |-> NULLPTR]
                    ELSE [tok |-> tok, mem |-> MemPut(st.mem, end, NUL), save |-> end + 1]

----------------------------------------------------------------------------
(* Configuration record: eepromType eepromData, and the EEPROM *)

\* sizeof(eepromType): int, three char[64], unsigned short, padded to 4 bytes
EEPROM_SIZE == 200
FIELD_LEN == 64
\* offsets of staSSID, staPSK, roCommunity and dataValid in eepromType
SSID_OFF == 4
PSK_OFF == 68
COMMUNITY_OFF == 132
VALID_OFF == 196
\* EEPROM_VALID, 0x2367
EEPROM_VALID == 9063

DEFAULT_SSID == Str(<< "b", "a", "l", "l", "a", "c", "u", "r", "m", "u", "d", "g", "e", "o", "n" >>)
DEFAULT_PSK == Str(<< "s", "c", "a", "r", "a", "m", "a", "n", "g", "a" >>)
RO_COMMUNITY == Str(<< "p", "u", "b", "l", "i", "c" >>)

\* the int (32 bits, little endian, two's complement) at offset o
Int32At(m, o) ==
    LET b3 == MemGet(m, o + 3) IN
    MemGet(m, o) + 256 * MemGet(m, o + 1) + 65536 * MemGet(m, o + 2)
        + 16777216 * (IF b3 >= 128 THEN b3 - 256 ELSE b3)

\* the unsigned short at offset o
UInt16At(m, o) == MemGet(m, o) + 256 * MemGet(m, o + 1)

\* the bytes bs stored from offset o on, with no check of any bound
PutBytes(m, o, bs) ==
    LET old == IF Len(m) >= o THEN m ELSE m \o [i \in 1 .. (o - Len(m)) |-> NUL] IN
    SubSeq(old, 1, o) \o bs \o SubSeq(old, o + Len(bs) + 1, Len(old))

\* strcpy(dst, src) for the string s: its bytes and the terminating NUL
Strcpy(m, dst, s) == PutBytes(m, dst, s \o << NUL >>)

\* eepromData.eepromSize = n; eepromData.dataValid = v
PutInt32(m, o, n) ==
    PutBytes(m, o, << n % 256, (n \div 256) % 256, (n \div 65536) % 256,
                      (n \div 16777216) % 256 >>)

PutUInt16(m, o, v) == PutBytes(m, o, << v % 256, v \div 256 >>)

\* the record as the program reads it
EepromSizeOf(m) == Int32At(m, 0)
DataValidOf(m) == UInt16At(m, VALID_OFF)
SsidOf(m) == CStr(m, SSID_OFF)
PskOf(m) == CStr(m, PSK_OFF)
CommunityOf(m) == CStr(m, COMMUNITY_OFF)

\* the three strcpy of the compiled-in defaults
LoadDefaults(m) ==
    Strcpy(Strcpy(Strcpy(m, SSID_OFF, DEFAULT_SSID), PSK_OFF, DEFAULT_PSK),
           COMMUNITY_OFF, RO_COMMUNITY)

\* an array of exactly n bytes: the first n bytes of m, zero filled
Bytes(m, n) == SubSeq(m \o [i \in 1 .. n |-> NUL], 1, n)

\* a getConfig that accepts any record carrying the marker
GetConfigMarkerOnly(flash) ==
    LET m == Bytes(flash, EEPROM_SIZE) IN
    IF DataValidOf(m) = EEPROM_VALID
    THEN m
    ELSE PutUInt16(LoadDefaults(PutInt32(m, 0, EEPROM_SIZE)), VALID_OFF, EEPROM_VALID)

\* getConfig: the record is read from the EEPROM byte by byte; a record of
\* another size or without the marker is replaced by the defaults
GetConfig(flash) ==
    LET m == Bytes(flash, EEPROM_SIZE) IN
    IF EepromSizeOf(m) = EEPROM_SIZE /\ DataValidOf(m) = EEPROM_VALID
    THEN m
    ELSE PutUInt16(LoadDefaults(PutInt32(m, 0, EEPROM_SIZE)), VALID_OFF, EEPROM_VALID)

\* saveConfig: eepromData.eepromSize bytes of the record go to the EEPROM
SaveConfig(m, flash) ==
    LET n == EepromSizeOf(m) IN
    [i \in 1 .. Len(flash) |-> IF i <= n THEN MemGet(m, i - 1) ELSE flash[i]]

\* httpResetConfiguration
HttpResetConfiguration(m) == LoadDefaults(m)

\* an EEPROM never written: every byte erased
ErasedFlash == [i \in 1 .. EEPROM_SIZE |-> ERASED]

----------------------------------------------------------------------------
(* The line reader of the two web servers *)

\* char httpRequest[255]; char *httpParams[16]
HTTP_REQUEST_SIZE == 255
HTTP_PARAMS == 16
\* the idle timeout, milliseconds
HTTP_IDLE_MS == 2000
\* the url starts at &httpRequest[4]
URL_OFFSET == 4

GET == Str(<< "G", "E", "T" >>)
\* the delimiters of strtok(url, "?& ") and of strtok(param, "=")
UrlDelims == { Ascii["?"], Ascii["&"], Ascii[" "] }
ParamDelims == { Ascii["="] }

\* a - b > limit in unsigned long (32 bit) arithmetic, for a, b, limit
\* below 2^30: when a < b the difference wraps to 2^32 - (b - a)
ULongDiffExceeds(a, b, limit) ==
    IF a >= b THEN a - b > limit
    ELSE (b - a + limit) \div 65536 < 65536

\* a status reader whose threshold has a digit too many
StatusTimedOutLate(ms0, now) == ULongDiffExceeds(now, ms0, 10 * HTTP_IDLE_MS)

\* httpStatusGetRequest: millis() - ms > 2000
StatusTimedOut(ms0, now) == ULongDiffExceeds(now, ms0, HTTP_IDLE_MS)

\* httpWebServer: ms - millis() > 2000
ConfigTimedOut(ms0, now) == ULongDiffExceeds(ms0, now, HTTP_IDLE_MS)

TimedOut(server, ms0, now) ==
    IF server = "status" THEN StatusTimedOut(ms0, now) ELSE ConfigTimedOut(ms0, now)

\* What a turn of the reader's while loop finds: a byte to read, or, d
\* milliseconds after the turn before, nothing.
Byte(c) == [avail |-> TRUE, c |-> c]
Idle(d) == [avail |-> FALSE, d |-> d]

\* the reader's variables on entry: urlPtr = httpRequest, and the connection open
NewReader(mem, ms0, now) ==
    [mem |-> mem, urlPtr |-> 0, ms |-> ms0, now |-> now, open |-> TRUE,
     complete |-> FALSE, closedBy |-> "none", trace |-> << >>, maxStore |-> -1]

\* a reader that leaves the connection open after a completed line
ReaderStepKeepsOpen(server, r, ev) ==
    IF ev.avail
    THEN IF ev.c = LF
         THEN [r EXCEPT !.ms = r.now,
                        !.mem = MemPut(r.mem, r.urlPtr, NUL),
                        !.maxStore = IF r.urlPtr > @ THEN r.urlPtr ELSE @,
                        !.complete = TRUE, !.closedBy = "dispatch",
                        !.trace = Append(@, "complete")]
         ELSE IF ev.c # CR
         THEN [r EXCEPT !.ms = r.now,
                        !.mem = MemPut(r.mem, r.urlPtr, ev.c),
                        !.maxStore = IF r.urlPtr > @ THEN r.urlPtr ELSE @,
                        !.urlPtr = r.urlPtr + 1,
                        !.trace = Append(@, "append")]
         ELSE [r EXCEPT !.ms = r.now, !.trace = Append(@, "drop")]
    ELSE IF TimedOut(server, r.ms, r.now + ev.d)
         THEN [r EXCEPT !.now = r.now + ev.d, !.open = FALSE,
                        !.closedBy = "timeout", !.trace = Append(@, "timeout")]
         ELSE [r EXCEPT !.now = r.now + ev.d, !.trace = Append(@, "wait")]

\* One turn of the reader's while loop.  trace collects the decisions,
\* maxStore the highest offset stored to.
ReaderStep(server, r, ev) ==
    IF ev.avail
    THEN IF ev.c = LF
         THEN [r EXCEPT !.ms = r.now,
                        !.mem = MemPut(r.mem, r.urlPtr, NUL),
                        !.maxStore = IF r.urlPtr > @ THEN r.urlPtr ELSE @,
                        !.complete = TRUE, !.open = FALSE, !.closedBy = "dispatch",
                        !.trace = Append(@, "complete")]
         ELSE IF ev.c # CR
         THEN [r EXCEPT !.ms = r.now,
                        !.mem = MemPut(r.mem, r.urlPtr, ev.c),
                        !.maxStore = IF r.urlPtr > @ THEN r.urlPtr ELSE @,
                        !.urlPtr = r.urlPtr + 1,
                        !.trace = Append(@, "append")]
         ELSE [r EXCEPT !.ms = r.now, !.trace = Append(@, "drop")]
    ELSE IF TimedOut(server, r.ms, r.now + ev.d)
         THEN [r EXCEPT !.now = r.now + ev.d, !.open = FALSE,
                        !.closedBy = "timeout", !.trace = Append(@, "timeout")]
         ELSE [r EXCEPT !.now = r.now + ev.d, !.trace = Append(@, "wait")]

RECURSIVE RunReader(_, _, _)
\* the turns of the while (httpClient.connected()) loop on the events of
\* script, as long as the connection is open: those on its first half,
\* then those on its second half
RunReader(server, r, script) ==
    IF ~r.open \/ script = << >> THEN r
    ELSE IF Len(script) = 1 THEN ReaderStep(server, r, script[1])
    ELSE LET half == Len(script) \div 2
             r1 == RunReader(server, r, SubSeq(script, 1, half))
         IN IF ~r1.open THEN r1
            ELSE RunReader(server, r1, SubSeq(script, half + 1, Len(script)))

\* the whole loop; a client with no more to do closes the connection
ReadRequest(server, r, script) ==
    LET r1 == RunReader(server, r, script) IN
    IF r1.open THEN [r1 EXCEPT !.open = FALSE, !.closedBy = "peer"] ELSE r1

----------------------------------------------------------------------------
(* Request handlers.  h holds what a handler reads and writes: the request  *)
(* buffer (mem), strtok's saved position (save), httpParams (params), the   *)
(* configuration record (ed), the ints declared after it as bytes (behind)  *)
(* and whether the build has put them right behind the record (adjacent),   *)
(* the EEPROM (flash), the page sent (page), the calls of saveConfig        *)
(* (saves), whether a null pointer was used as a string (fault), whether a  *)
(* handler has stored outside the object it stores to (oob), and whether    *)
(* such a store went past the objects the model follows (beyond).           *)

TokState(h) == [mem |-> h.mem, save |-> h.save]

Fault(h) == [h EXCEPT !.fault = TRUE]

\* char txtBuff[80] of httpStatusPage
TXT_BUFF_SIZE == 80

\* sprintf(txtBuff, "    <td>%s</td>", eepromData.staSSID): the characters
\* formatted, without the terminating NUL
SsidCell(ed) ==
    Str(<< " ", " ", " ", " ", "<", "t", "d", ">" >>) \o SsidOf(ed)
        \o Str(<< "<", "/", "t", "d", ">" >>)

\* httpStatusPage.  Of the lines it formats in txtBuff only the one with the
\* ssid can be longer than the buffer: that sprintf then stores outside it.
HttpStatusPage(h, url) ==
    LET t == Strtok(TokState(h), url, UrlDelims) IN
    IF t.tok = NULLPTR THEN Fault([h EXCEPT !.save = t.save])
    ELSE IF CStr(t.mem, t.tok) = Str(<< "/" >>)
    THEN [h EXCEPT !.mem = t.mem, !.save = t.save, !.page = "status",
                   !.oob = @ \/ Len(SsidCell(h.ed)) + 1 > TXT_BUFF_SIZE]
    ELSE [h EXCEPT !.mem = t.mem, !.save = t.save, !.page = "notfound"]

\* httpParams[c] = p, with no check of c: from c = 16 on the store is
\* outside the array (oob)
PutParam(h, c, p) ==
    IF c < HTTP_PARAMS THEN [h EXCEPT !.params[c + 1] = p]
    ELSE [h EXCEPT !.oob = TRUE]

RECURSIVE Tokenize(_, _, _)
\* httpHandleGetRequest: the while (tokPtr != NULL) loop; t is the token just found
Tokenize(h, t, c) ==
    IF t.tok = NULLPTR THEN [h EXCEPT !.mem = t.mem, !.save = t.save]
    ELSE LET h1 == PutParam([h EXCEPT !.mem = t.mem, !.save = t.save], c, t.tok)
         IN Tokenize(h1, Strtok(TokState(h1), NULLPTR, UrlDelims), c + 1)

\* the fields the parameter handlers write, by parameter name
ParamField ==
    << [name |-> Str(<< "s", "s", "i", "d" >>), off |-> SSID_OFF],
       [name |-> Str(<< "p", "a", "s", "s", "w", "o", "r", "d" >>), off |-> PSK_OFF],
       [name |-> Str(<< "c", "o", "m", "m", "u", "n", "i", "t", "y" >>), off |-> COMMUNITY_OFF] >>

\* strcpy(field, value) in httpSetSsid, httpSetPassword and
\* httpSetRoCommunity, the field at offset off of eepromData.  A value that
\* does not fit in what is left of the record is stored past its end (oob):
\* in the ints declared after the record where the build has put them right
\* behind it (h.adjacent), and past those in objects the model does not
\* follow (beyond).
StoreField(h, off, value) ==
    LET all == Strcpy(h.ed \o h.behind, off, value)
        end == off + Len(value) + 1
    IN [h EXCEPT !.ed = SubSeq(all, 1, Len(h.ed)),
                 !.behind = IF h.adjacent
                            THEN SubSeq(all, Len(h.ed) + 1, Len(h.ed) + Len(h.behind))
                            ELSE @,
                 !.oob = @ \/ end > Len(h.ed),
                 !.beyond = @ \/ (h.adjacent /\ end > Len(h.ed) + Len(h.behind))]

\* httpParseParam, with httpSetSsid, httpSetPassword and httpSetRoCommunity
HttpParseParam(h, name, value) ==
    IF name = NULLPTR THEN Fault(h)
    ELSE LET key == CStr(h.mem, name)
             hit == { i \in 1 .. Len(ParamField) : ParamField[i].name = key }
         IN IF hit = {} THEN h
            ELSE IF value = NULLPTR THEN Fault(h)
            ELSE StoreField(h, ParamField[Min(hit)].off, CStr(h.mem, value))

RECURSIVE SaveParams(_, _)
\* httpSaveConfiguration: the for (c = 1; c < 4; c++) loop
SaveParams(h, c) ==
    IF c >= 4 \/ h.fault THEN h
    ELSE LET t1 == Strtok(TokState(h), h.params[c + 1], ParamDelims)
             t2 == Strtok([mem |-> t1.mem, save |-> t1.save], NULLPTR, ParamDelims)
         IN SaveParams(HttpParseParam([h EXCEPT !.mem = t2.mem, !.save = t2.save],
                                      t1.tok, t2.tok),
                       c + 1)

\* httpSaveConfiguration
HttpSaveConfiguration(h) ==
    LET h1 == SaveParams([h EXCEPT !.page = "save"], 1) IN
    IF h1.fault THEN h1
    ELSE [h1 EXCEPT !.flash = SaveConfig(h1.ed, h1.flash), !.saves = @ + 1]

\* httpHandleGetRequest
HttpHandleGetRequest(h, url) ==
    LET h1 == Tokenize(h, Strtok(TokState(h), url, UrlDelims), 0) IN
    IF h1.params[1] = NULLPTR THEN Fault(h1)
    ELSE LET file == CStr(h1.mem, h1.params[1]) IN
         IF file = Str(<< "/", "r", "e", "s", "e", "t", ".", "h", "t", "m", "l" >>)
         THEN [h1 EXCEPT !.page = "reset", !.ed = HttpResetConfiguration(@)]
         ELSE IF file = Str(<< "/", "c", "o", "n", "f", "i", "g", ".", "h", "t", "m", "l" >>)
         THEN HttpSaveConfiguration(h1)
         ELSE IF file = Str(<< "/" >>)
         THEN [h1 EXCEPT !.page = "config"]
         ELSE [h1 EXCEPT !.page = "notfound"]

\* what either reader does with a completed line
Dispatch(server, h) ==
    IF ~StrNEq(h.mem, GET) THEN h
    ELSE IF server = "status" THEN HttpStatusPage(h, URL_OFFSET)
    ELSE HttpHandleGetRequest(h, URL_OFFSET)

\* The service of one connection by either server: the reader, then the
\* handler if a line was completed.  The result is h with the reader's
\* final variables (reader).
Serve(server, h, ms0, now, script) ==
    LET r == ReadRequest(server, NewReader(h.mem, ms0, now), script)
        h1 == [h EXCEPT !.mem = r.mem, !.reader = r]
    IN IF r.complete THEN Dispatch(server, h1) ELSE h1

----------------------------------------------------------------------------
(* The program *)

\* the most connections the configuration server is followed through
MaxConns == 2

NoService == [served |-> FALSE]
NoClient == [name |-> "nobody"]

\* the uninitialised ints declared after eepromData, as bytes
IntsBehind ==
    PutInt32(PutInt32(PutInt32(PutInt32(<< >>, 0, numSensors), 4, currentSensor),
                      8, ledTicks), 12, sensorTicks)

\* the variables a request handler works on, before a connection is served
HState ==
    [mem |-> httpRequest, save |-> strtokSave, params |-> httpParams,
     ed |-> eepromData, flash |-> eeprom, page |-> "none", saves |-> 0,
     fault |-> FALSE, reader |-> NewReader(httpRequest, 0, 0),
     behind |-> IntsBehind, adjacent |-> FALSE, oob |-> FALSE, beyond |-> FALSE]

\* what is recorded of the connection just served
Served(server, conn, h) ==
    [served |-> TRUE, server |-> server, conn |-> conn,
     closedBy |-> h.reader.closedBy, complete |-> h.reader.complete,
     trace |-> h.reader.trace, maxStore |-> h.reader.maxStore,
     page |-> h.page, saves |-> h.saves, fault |-> h.fault]

\* the globals and the statics, as the C runtime initialises them
InitRam ==
    /\ pc = "boot"
    /\ urlPtr = 0
    /\ numSensors = 0
    /\ currentSensor = 0
    /\ sensorTicks = 0
    /\ ledTicks = 0
    /\ led = "off"
    /\ sensors = InitialSensors
    /\ mibTree = << >>
    /\ eepromData = << >>
    /\ httpRequest = << >>
    /\ httpParams = [i \in 1 .. HTTP_PARAMS |-> NULLPTR]
    /\ strtokSave = NULLPTR
    /\ httpDone = FALSE
    /\ ms = 0
    /\ millis = 0
    /\ conns = 0
    /\ httpOut = NoService
    /\ snmpResp = NoResponse
    /\ lastRead = NoRead
    /\ polled = << >>
    /\ tickInCycle = 0
    /\ lastGood = [c \in SensorIdx |-> DEVICE_DISCONNECTED_C]

\* power up with an EEPROM never written
Init == InitRam /\ eeprom = ErasedFlash

\* setup(): getConfig; with the mode switch closed (sw = 0) configurationMode,
\* which starts the configuration server and never returns; otherwise
\* initSensors, then initMibTree.
\* found is the number of devices the driver counts on the bus.
Setup(found, sw) ==
    /\ pc = "boot"
    /\ eepromData' = GetConfig(eeprom)
    /\ ledTicks' = 0
    /\ IF sw = 0
       THEN /\ pc' = "setup"
            /\ led' = "on"
            /\ httpDone' = FALSE
            /\ ms' = millis
            /\ UNCHANGED << sensorTicks, currentSensor, numSensors, sensors, mibTree >>
       ELSE /\ pc' = "run"
            /\ led' = "off"
            /\ sensorTicks' = SENSOR_TICKS
            /\ currentSensor' = 0
            /\ numSensors' = SensorCount(found)
            /\ sensors' = DiscoverSensors(sensors, SensorCount(found))
            /\ mibTree' = InitMibTree(DiscoverSensors(sensors, SensorCount(found)), SensorCount(found))
            /\ UNCHANGED << httpDone, ms >>
    /\ UNCHANGED << eeprom, httpRequest, httpParams, strtokSave, urlPtr, millis,
                    conns, httpOut, snmpResp, lastRead, polled, tickInCycle, lastGood >>

\* httpDone after a reader that stored as far as offset maxStore and left
\* the buffer as mem: a store at httpRequest[255] is outside the array, and
\* httpDone is declared next
DoneAfter(adjacent, maxStore, mem, done) ==
    IF adjacent /\ maxStore >= HTTP_REQUEST_SIZE
    THEN MemGet(mem, HTTP_REQUEST_SIZE) # NUL
    ELSE done

\* A store outside the object stored to (the reader's past the end of
\* httpRequest, a handler's past the end of httpParams, eepromData or
\* txtBuff) lands in whatever the build has put there.  What the program
\* does from then on is not defined by its source.
Wild(h) == h.oob \/ h.reader.maxStore >= HTTP_REQUEST_SIZE

\* Where the program is after a service that would leave it at next.  After
\* a store outside an object either the store has landed in nothing the
\* program reads, or in the objects the model follows (httpDone behind
\* httpRequest, the ints behind eepromData), and the program is at next; or
\* it has landed somewhere else and the program is followed no further:
\* "undefined", where the variables no longer tell what the program holds.
AfterService(h, next) ==
    (IF h.beyond THEN { } ELSE { next }) \cup (IF Wild(h) THEN { "undefined" } ELSE { })

\* what the service h of the status server's client conn leaves behind
StatusServed(conn, h) ==
    /\ httpOut' = Served("status", conn, h)
    /\ httpRequest' = h.mem
    /\ strtokSave' = h.save
    /\ httpDone' \in { DoneAfter(a, h.reader.maxStore, h.mem, httpDone) : a \in BOOLEAN }
    /\ pc' \in AfterService(h, IF h.fault THEN "crash" ELSE "run")

\* a configuration server that ends once a record has been saved, so that
\* configurationMode returns and setup() goes on
ConfigServedEndsOnSave(conn, h) ==
    /\ httpOut' = Served("config", conn, h)
    /\ httpRequest' = h.mem
    /\ strtokSave' = h.save
    /\ httpParams' = h.params
    /\ eepromData' = h.ed
    /\ eeprom' = h.flash
    /\ ms' = h.reader.ms
    /\ millis' = h.reader.now
    /\ httpDone' = (h.saves > 0)
    /\ pc' = IF h.fault THEN "crash" ELSE IF httpDone' THEN "run" ELSE "setup"
    /\ UNCHANGED << numSensors, currentSensor, ledTicks, sensorTicks >>

\* what the service h of the configuration server's client conn leaves behind
ConfigServed(conn, h) ==
    /\ httpOut' = Served("config", conn, h)
    /\ httpRequest' = h.mem
    /\ strtokSave' = h.save
    /\ httpParams' = h.params
    /\ eepromData' = h.ed
    /\ numSensors' = Int32At(h.behind, 0)
    /\ currentSensor' = Int32At(h.behind, 4)
    /\ ledTicks' = Int32At(h.behind, 8)
    /\ sensorTicks' = Int32At(h.behind, 12)
    /\ eeprom' = h.flash
    /\ ms' = h.reader.ms
    /\ millis' = h.reader.now
    /\ httpDone' \in { DoneAfter(a, h.reader.maxStore, h.mem, httpDone) : a \in BOOLEAN }
    /\ pc' \in AfterService(h, IF h.fault THEN "crash" ELSE IF httpDone' THEN "halt" ELSE "setup")

\* the scheduler's variables as one record
Sched ==
    [sensorTicks |-> sensorTicks, ledTicks |-> ledTicks, led |-> led,
     numSensors |-> numSensors, currentSensor |-> currentSensor,
     sensors |-> sensors, read |-> NoRead]

\* a loop() that reads the sensors before it answers the manager
TickWorkSensorsFirst(req, t) ==
    LET s1 == ProcessSensors(Sched, t)
        l2 == ProcessLED([ledTicks |-> s1.ledTicks, led |-> s1.led])
    IN /\ sensorTicks' = s1.sensorTicks
       /\ currentSensor' = s1.currentSensor
       /\ sensors' = s1.sensors
       /\ ledTicks' = l2.ledTicks
       /\ led' = l2.led
       /\ lastRead' = s1.read
       /\ polled' = IF ~s1.read.issued THEN polled
                    ELSE IF s1.read.idx = 0 THEN << 0 >>
                    ELSE Append(polled, s1.read.idx)
       /\ lastGood' = IF ~s1.read.issued \/ t = DEVICE_DISCONNECTED_C THEN lastGood
                      ELSE [lastGood EXCEPT ![s1.read.idx] = t]
       /\ snmpResp' = ProcessSNMP(mibTree, s1.sensors, req)
       /\ mibTree' = TreeAfter(mibTree, s1.sensors, req)
       /\ tickInCycle' = (tickInCycle + 1) % SENSOR_TICKS

\* loop(), its first three calls: processSNMP, processSensors, processLED.
\* req is the request processSNMP finds, t the driver's answer to a read.
TickWork(req, t) ==
    /\ snmpResp' = ProcessSNMP(mibTree, sensors, req)
    /\ mibTree' = TreeAfter(mibTree, sensors, req)
    /\ tickInCycle' = (tickInCycle + 1) % SENSOR_TICKS
    /\ LET s1 == ProcessSensors(Sched, t)
           l2 == ProcessLED([ledTicks |-> s1.ledTicks, led |-> s1.led])
       IN /\ sensorTicks' = s1.sensorTicks
          /\ currentSensor' = s1.currentSensor
          /\ sensors' = s1.sensors
          /\ ledTicks' = l2.ledTicks
          /\ led' = l2.led
          /\ lastRead' = s1.read
          /\ polled' = IF ~s1.read.issued THEN polled
                       ELSE IF s1.read.idx = 0 THEN << 0 >>
                       ELSE Append(polled, s1.read.idx)
          /\ lastGood' = IF ~s1.read.issued \/ t = DEVICE_DISCONNECTED_C THEN lastGood
                         ELSE [lastGood EXCEPT ![s1.read.idx] = t]

\* loop(): processSNMP, processSensors, processLED, then the status server's
\* client if there is one, then the delay of one tick.
\* conn is the client connected to the status server (NoClient: none).  The
\* status reader measures idle time from its own entry, which is taken as
\* the origin of time here.
Loop(req, t, conn) ==
    /\ pc = "run"
    /\ TickWork(req, t)
    /\ IF conn = NoClient
       THEN /\ httpOut' = NoService
            /\ UNCHANGED << pc, httpRequest, strtokSave, httpDone >>
       ELSE StatusServed(conn, Serve("status", HState, 0, 0, conn.script))
    /\ UNCHANGED << numSensors, eeprom, eepromData, httpParams,
                    urlPtr, ms, millis, conns >>

\* httpWebServer: one turn of the while (httpDone == false) loop that finds
\* a client.  conn.gap is the time since the server last read the clock.
HttpWebServer(conn) ==
    /\ pc = "setup"
    /\ ~httpDone
    /\ conns < MaxConns
    /\ \E adjacent \in BOOLEAN :
           ConfigServed(conn, Serve("config", [HState EXCEPT !.adjacent = adjacent],
                                    ms, millis + conn.gap, conn.script))
    /\ conns' = conns + 1
    /\ UNCHANGED << led, sensors, mibTree, urlPtr, snmpResp, lastRead, polled,
                    tickInCycle, lastGood >>

\* loop() as far as the entry of httpStatusGetRequest, for a client that
\* has connected: urlPtr = httpRequest; ms = millis().  The time of that
\* assignment is the origin of time.
Accept(t) ==
    /\ pc = "run"
    /\ TickWork(NoRequest, t)
    /\ pc' = "reading"
    /\ urlPtr' = 0
    /\ ms' = 0
    /\ millis' = 0
    /\ httpOut' = NoService
    /\ UNCHANGED << numSensors, eeprom, eepromData, httpRequest, httpParams,
                    strtokSave, httpDone, conns >>

\* the client of a connection followed turn by turn
LiveClient == [name |-> "live"]

\* the reader's variables at a turn of its loop
ReaderNow == [NewReader(httpRequest, ms, millis) EXCEPT !.urlPtr = urlPtr]

\* What a turn of the status reader that left the reader as r leaves behind.
\* While the connection is open the reader goes on; the time of the latest
\* ms = millis() stays the origin of time.  Once it is closed the handler
\* has run if the line was completed, and loop() flushes, stops, waits one
\* tick and returns; the reader's locals are gone.
TurnTaken(r) ==
    /\ IF r.open
       THEN /\ pc' \in { "reading" } \cup
                       (IF r.maxStore >= HTTP_REQUEST_SIZE THEN { "undefined" } ELSE { })
            /\ httpRequest' = r.mem
            /\ urlPtr' = r.urlPtr
            /\ millis' = r.now - r.ms
            /\ httpDone' \in { DoneAfter(a, r.maxStore, r.mem, httpDone) : a \in BOOLEAN }
            /\ UNCHANGED << strtokSave, httpOut >>
       ELSE /\ StatusServed(LiveClient,
                            LET h == [HState EXCEPT !.mem = r.mem, !.reader = r]
                            IN IF r.complete THEN Dispatch("status", h) ELSE h)
            /\ urlPtr' = 0
            /\ millis' = 0
    /\ ms' = 0
    /\ UNCHANGED << numSensors, currentSensor, sensorTicks, ledTicks, led, sensors,
                    mibTree, eeprom, eepromData, httpParams, conns,
                    snmpResp, lastRead, polled, tickInCycle, lastGood >>

\* one turn of the while (httpClient.connected()) loop of
\* httpStatusGetRequest, on what the turn finds
ReaderTurn(ev) ==
    /\ pc = "reading"
    /\ TurnTaken(ReaderStep("status", ReaderNow, ev))

\* the client has closed the connection: the while loop ends
PeerCloses ==
    /\ pc = "reading"
    /\ TurnTaken([ReaderNow EXCEPT !.open = FALSE, !.closedBy = "peer"])

----------------------------------------------------------------------------
(* Clients *)

\* the bytes of s, each there when the reader asks
Fast(s) == [i \in 1 .. Len(s) |-> Byte(s[i])]
\* the line s, ended by CR LF
Line(s) == Fast(s \o << CR, LF >>)
\* the same, with a turn that finds nothing, d milliseconds later, after every byte
Slow(s, d) ==
    [i \in 1 .. 2 * (Len(s) + 2) |->
        IF i % 2 = 1 THEN Byte((s \o << CR, LF >>)[(i + 1) \div 2]) ELSE Idle(d)]
Filler(n) == [i \in 1 .. n |-> Ascii["x"]]

RootLine == Str(<< "G", "E", "T", " ", "/", " ", "H", "T", "T", "P", "/", "1", ".", "1" >>)

\* two request lines sent at once
TwoLines == Line(RootLine) \o Line(Str(<< "G", "E", "T", " ", "/", "r", "e", "s", "e", "t", ".", "h", "t", "m", "l", " ", "H", "T", "T", "P", "/", "1", ".", "1" >>))

\* clients of the status server
StatusClients ==
    { [name |-> "root", script |-> Line(RootLine)],
      [name |-> "other", script |-> Line(Str(<< "G", "E", "T", " ", "/", "c", "o", "n", "f", "i", "g", ".", "h", "t", "m", "l" >>))],
      [name |-> "bare", script |-> Line(GET)],
      [name |-> "twolines", script |-> TwoLines],
      [name |-> "getx", script |-> Line(Str(<< "G", "E", "T", "X", "/", " ", "H", "T", "T", "P", "/", "1", ".", "1" >>))],
      [name |-> "post", script |-> Line(Str(<< "P", "O", "S", "T", " ", "/", " ", "H", "T", "T", "P", "/", "1", ".", "1" >>))],
      [name |-> "silent", script |-> << Idle(1), Idle(HTTP_IDLE_MS) >>],
      [name |-> "leaves", script |-> << Idle(1), Idle(HTTP_IDLE_MS - 1) >>],
      [name |-> "stalls", script |-> Fast(GET) \o << Idle(1), Idle(HTTP_IDLE_MS) >>],
      [name |-> "slow", script |-> Slow(RootLine, 1)] }

\* the values a client asks to be saved: ssid, password, community
MyNet == Str(<< "M", "y", "N", "e", "t" >>)
Secret == Str(<< "S", "e", "c", "r", "e", "t" >>)
Private == Str(<< "p", "r", "i", "v", "a", "t", "e" >>)
WantedValues ==
    { << MyNet, Secret, Private >>,
      << Str(<< "a", "=", "b" >>), Secret, Private >>,
      << Filler(FIELD_LEN), Secret, Private >>,
      << MyNet, Secret, Filler(FIELD_LEN) >>,
      << << >>, Secret, Private >> }
\* the orders of the three parameters in the query
ParamOrders == { << 1, 2, 3 >>, << 3, 1, 2 >> }

KeyValue(i, vals) == ParamField[i].name \o Str(<< "=" >>) \o vals[i]

\* what follows the query on the request line: nothing, or the protocol version
LineTails == { << >>, Str(<< " ", "H", "T", "T", "P", "/", "1", ".", "1" >>) }

\* GET /config.html?k=v&k=v&k=v
SaveLine(order, vals, tail) ==
    Str(<< "G", "E", "T", " ", "/", "c", "o", "n", "f", "i", "g", ".", "h", "t", "m", "l", "?" >>) \o KeyValue(order[1], vals)
        \o Str(<< "&" >>) \o KeyValue(order[2], vals)
        \o Str(<< "&" >>) \o KeyValue(order[3], vals) \o tail

\* n more tokens: &a&a ...
MoreTokens(n) == [i \in 1 .. 2 * n |-> IF i % 2 = 1 THEN Ascii["&"] ELSE Ascii["a"]]

\* a community too long for what is left of the record from its field on:
\* with its terminating NUL, extra bytes of it are stored past the record
LongCommunity(extra) ==
    [i \in 1 .. (EEPROM_SIZE - COMMUNITY_OFF) - 1 + extra |-> Ascii["f"]]

SaveClients ==
    { [name |-> "save", gap |-> 0, script |-> Line(SaveLine(o, v, tail)), vals |-> v]
        : o \in ParamOrders, v \in WantedValues, tail \in LineTails }

\* clients of the configuration server
ConfigClients ==
    SaveClients \cup
    { [name |-> "root", gap |-> 1, script |-> Line(RootLine)],
      [name |-> "reset", gap |-> 0, script |-> Line(Str(<< "G", "E", "T", " ", "/", "r", "e", "s", "e", "t", ".", "h", "t", "m", "l", " ", "H", "T", "T", "P", "/", "1", ".", "1" >>))],
      [name |-> "other", gap |-> 0, script |-> Line(Str(<< "G", "E", "T", " ", "/", "s", "t", "a", "t", "u", "s", ".", "h", "t", "m", "l" >>))],
      [name |-> "bare", gap |-> 0, script |-> Line(GET)],
      [name |-> "twolines", gap |-> 0, script |-> TwoLines],
      [name |-> "getx", gap |-> 0, script |-> Line(Str(<< "G", "E", "T", "X", "/", " ", "H", "T", "T", "P", "/", "1", ".", "1" >>))],
      [name |-> "unmatched", gap |-> 0, script |-> Line(Str(<< "G", "E", "T", " ", "/", "c", "o", "n", "f", "i", "g", ".", "h", "t", "m", "l", "?", "c", "o", "l", "o", "u", "r", "=", "r", "e", "d", "&", "s", "s", "i", "d", "=", "M", "y", "N", "e", "t", "&", "p", "a", "s", "s", "w", "o", "r", "d", "=", "S", "e", "c", "r", "e", "t" >>))],
      [name |-> "extra", gap |-> 0, script |-> Line(Str(<< "G", "E", "T", " ", "/", "c", "o", "n", "f", "i", "g", ".", "h", "t", "m", "l", "?", "c", "o", "l", "o", "u", "r", "=", "r", "e", "d", "&", "s", "s", "i", "d", "=", "M", "y", "N", "e", "t", "&", "p", "a", "s", "s", "w", "o", "r", "d", "=", "S", "e", "c", "r", "e", "t", "&", "c", "o", "m", "m", "u", "n", "i", "t", "y", "=", "p", "r", "i", "v", "a", "t", "e" >>))],
      [name |-> "short", gap |-> 0, script |-> Line(Str(<< "G", "E", "T", " ", "/", "c", "o", "n", "f", "i", "g", ".", "h", "t", "m", "l", "?", "s", "s", "i", "d", "=", "M", "y", "N", "e", "t" >>))],
      [name |-> "novalue", gap |-> 0, script |-> Line(Str(<< "G", "E", "T", " ", "/", "c", "o", "n", "f", "i", "g", ".", "h", "t", "m", "l", "?", "s", "s", "i", "d", "&", "p", "a", "s", "s", "w", "o", "r", "d", "=", "S", "e", "c", "r", "e", "t", "&", "c", "o", "m", "m", "u", "n", "i", "t", "y", "=", "p", "r", "i", "v", "a", "t", "e" >>))],
      [name |-> "post", gap |-> 0, script |-> Line(Str(<< "P", "O", "S", "T", " ", "/", "c", "o", "n", "f", "i", "g", ".", "h", "t", "m", "l", "?", "s", "s", "i", "d", "=", "M", "y", "N", "e", "t" >>))],
      [name |-> "silent", gap |-> 0, script |-> << Idle(1), Idle(HTTP_IDLE_MS) >>],
      [name |-> "sparse", gap |-> 0, script |-> << Idle(HTTP_IDLE_MS + 1) >>],
      [name |-> "leaves", gap |-> 0, script |-> << Idle(0) >>],
      [name |-> "stalls", gap |-> 0, script |-> Fast(GET) \o << Idle(1), Idle(HTTP_IDLE_MS) >>],
      [name |-> "slow", gap |-> 0, script |-> Slow(RootLine, 1)],
      [name |-> "overlong", gap |-> 0,
       script |-> Line(SaveLine(<< 1, 2, 3 >>, << MyNet, Secret, LongCommunity(3) >>, << >>))],
      [name |-> "farlong", gap |-> 0,
       script |-> Line(SaveLine(<< 3, 1, 2 >>, << MyNet, Secret, LongCommunity(Len(IntsBehind) + 4) >>, << >>))],
      [name |-> "manytokens", gap |-> 0,
       script |-> Line(SaveLine(<< 1, 2, 3 >>, << MyNet, Secret, Private >>, << >>)
                       \o MoreTokens(HTTP_PARAMS - 2))],
      [name |-> "full", gap |-> 0, script |-> Line(Filler(HTTP_REQUEST_SIZE))],
      [name |-> "flood", gap |-> 0, script |-> Line(Filler(HTTP_REQUEST_SIZE + 1))] }

----------------------------------------------------------------------------
(* Specifications *)

\* the thermometer with SNMP managers and no web clients
Tick ==
    \E req \in SnmpRequests \cup { NoRequest } : \E t \in Readings :
        Loop(req, t, NoClient)

Boot == \E found \in 0 .. MaxDevices : Setup(found, 1)

Next == Boot \/ Tick

Spec == Init /\ [][Next]_vars

\* the thermometer with web clients, in both modes
BootHttp == \E found \in { 0, 1 } : \E sw \in { 0, 1 } : Setup(found, sw)

TickHttp ==
    /\ pc = "run"
    /\ \E conn \in StatusClients \cup { NoClient } : Loop(NoRequest, 2150, conn)

ConfigServe ==
    /\ pc = "setup"
    /\ \E conn \in ConfigClients : HttpWebServer(conn)

NextHttp == BootHttp \/ TickHttp \/ ConfigServe

SpecHttp == Init /\ [][NextHttp]_vars

\* EEPROM contents a device may boot with.  SavedRecord is a record as
\* saveConfig writes it; the other two are that record with the size of a
\* record that has no community field, and with the low byte of the marker
\* cleared.
SavedRecord ==
    PutUInt16(Strcpy(Strcpy(Strcpy(PutInt32(Bytes(<< >>, EEPROM_SIZE), 0, EEPROM_SIZE),
                                   SSID_OFF, MyNet), PSK_OFF, Secret),
                     COMMUNITY_OFF, Private),
              VALID_OFF, EEPROM_VALID)
SavedFlash == SaveConfig(SavedRecord, ErasedFlash)
OtherSizeFlash == PutInt32(SavedFlash, 0, EEPROM_SIZE - FIELD_LEN)
OtherMarkerFlash == PutBytes(SavedFlash, VALID_OFF, << NUL >>)
FlashImages == { ErasedFlash, SavedFlash, OtherSizeFlash, OtherMarkerFlash }

\* the configuration mode and the boot of the thermometer on these contents
InitStore == InitRam /\ eeprom \in FlashImages

BootStore == \E sw \in { 0, 1 } : Setup(0, sw)

NextStore == BootStore \/ ConfigServe

SpecStore == InitStore /\ [][NextStore]_vars

\* The thermometer with one sensor and status clients followed turn by
\* turn.  A client sends the line GET / or a part of it, a CR or the LF at
\* any turn, or leaves the reader without a byte for a while, or closes.
LiveLine == Str(<< "G", "E", "T", " ", "/" >>)
LiveGaps == { HTTP_IDLE_MS \div 2, HTTP_IDLE_MS \div 2 + 1 }
LiveEvents ==
    { Byte(CR), Byte(LF) }
        \cup { Idle(d) : d \in LiveGaps }
        \cup { Byte(LiveLine[i]) : i \in { j \in 1 .. Len(LiveLine) : j = urlPtr + 1 } }

BootLive == Setup(1, 1)

TickLive == Loop(NoRequest, 2150, NoClient)

AcceptLive == Accept(2150)

TurnLive == \E ev \in LiveEvents : ReaderTurn(ev)

NextLive == BootLive \/ TickLive \/ AcceptLive \/ TurnLive \/ PeerCloses

\* loop() runs again as soon as it has returned, and the reader's loop
\* takes its next turn as long as the connection is open: the program
\* never stops of itself.  Nothing is assumed of the client.
SpecLive == Init /\ [][NextLive]_vars /\ WF_vars(NextLive)

----------------------------------------------------------------------------
(* Properties *)

\* the temperature object of sensor k (1-based), as the agent resolves it now
ResolveTemp(k) == Resolve(mibTree, sensors, SensorOid(3, k))

\* C1: round-robin coverage.  The reads of a polling round (since the cursor
\* was last 0) are the indices 0, 1, 2, ... in this order, each once; after
\* numSensors of them the cursor is 0 again; with no sensor no read is ever
\* issued and the cursor stays 0.
C1_RoundRobin ==
    pc = "run" =>
        /\ polled = [i \in 1 .. Len(polled) |-> i - 1]
        /\ Len(polled) <= numSensors
        /\ numSensors = 0 => (currentSensor = 0 /\ ~lastRead.issued)
        /\ numSensors > 0 => currentSensor = Len(polled) % numSensors
        /\ (numSensors > 0 /\ Len(polled) = numSensors) =>
               (currentSensor = 0 /\ polled = [i \in 1 .. numSensors |-> i - 1])

\* C1 witness: four sensors, a full round read, the cursor back at 0
C1_Witness ==
    /\ numSensors = MAX_SENSORS
    /\ polled = << 0, 1, 2, 3 >>
    /\ currentSensor = 0

\* C2: a read that returns the disconnected sentinel leaves the temperature
\* of the sensor read as it was, and the cursor moves on to the next sensor
\* (modulo the sensor count) as after any read.
C2_IdempotentOnFailure ==
    [][(lastRead'.issued /\ lastRead'.t = DEVICE_DISCONNECTED_C) =>
          /\ lastRead'.idx = currentSensor
          /\ sensors'[currentSensor].temperature = sensors[currentSensor].temperature
          /\ sensors'[currentSensor].temperature # ScaleReading(DEVICE_DISCONNECTED_C)
          /\ currentSensor' = (currentSensor + 1) % numSensors]_vars

\* C2 witness: a failed read of a sensor that had been read successfully
\* before; the value of the earlier read is still stored
C2_Witness ==
    /\ lastRead.issued
    /\ lastRead.t = DEVICE_DISCONNECTED_C
    /\ lastGood[lastRead.idx] # DEVICE_DISCONNECTED_C
    /\ sensors[lastRead.idx].temperature = ScaleReading(lastGood[lastRead.idx])

\* C3: at every point after boot the temperature object of sensor k resolves
\* to the value now held in sensors[k-1]; with two sensors, after the first
\* read of a round object 1 holds that read and the cursor is 1, after the
\* second object 2 holds that read and the cursor is 0.
C3_LiveResolution ==
    pc = "run" =>
        /\ \A k \in 1 .. numSensors :
               ResolveTemp(k) =
                   [found |-> TRUE, type |-> "INTEGER", value |-> sensors[k - 1].temperature]
        /\ (numSensors = 2 /\ lastRead.issued /\ lastRead.t # DEVICE_DISCONNECTED_C) =>
               /\ lastRead.idx = 0 =>
                      (ResolveTemp(1).value = ScaleReading(lastRead.t) /\ currentSensor = 1)
               /\ lastRead.idx = 1 =>
                      (ResolveTemp(2).value = ScaleReading(lastRead.t) /\ currentSensor = 0)

\* C3 witness: two sensors, the second cycle has just stored a reading that
\* differs from the one stored for sensor 1
C3_Witness ==
    /\ numSensors = 2
    /\ polled = << 0, 1 >>
    /\ lastRead.issued /\ lastRead.idx = 1 /\ lastRead.t = -625
    /\ lastGood[0] = 2150
    /\ ResolveTemp(2).value = -62
    /\ ResolveTemp(1).value = 215

\* C4: a temperature the agent returns for sensor k was stored by a
\* successful read of sensor k (so at least one such read has happened).
C4_OnlyReadValuesExposed ==
    \A k \in 1 .. numSensors :
        (snmpResp.asked /\ snmpResp.oid = SensorOid(3, k) /\ snmpResp.resp.found) =>
            lastGood[k - 1] # DEVICE_DISCONNECTED_C

\* C5: the tree holds the index, address and temperature objects of every
\* sensor found.
C5_AllThreeColumns ==
    pc = "run" =>
        \A k \in 1 .. numSensors : \A col \in { 1, 2, 3 } :
            Resolve(mibTree, sensors, SensorOid(col, k)).found

\* C6: the temperature object holds the sensor's temperature multiplied by
\* 100 (lastGood is the reading in hundredths of a degree).
C6_HundredthsScale ==
    pc = "run" =>
        \A k \in 1 .. numSensors :
            lastGood[k - 1] # DEVICE_DISCONNECTED_C =>
                ResolveTemp(k).value = lastGood[k - 1]

\* the time a connection lets pass before its first byte
RECURSIVE Silence(_)
Silence(script) ==
    IF script = << >> \/ Head(script).avail THEN 0
    ELSE Head(script).d + Silence(Tail(script))

\* C7: on either server a connection that delivers no byte for longer than
\* 2000 ms is closed by the reader on the idle timeout, no handler has run
\* for it (no page, no save, no line completed), and the server goes on to
\* the next connection.
C7_IdleTimeout ==
    (httpOut.served /\ Silence(httpOut.conn.script) > HTTP_IDLE_MS) =>
        /\ httpOut.closedBy = "timeout"
        /\ ~httpOut.complete
        /\ httpOut.page = "none"
        /\ httpOut.saves = 0
        /\ ~httpOut.fault
        /\ httpOut.server = "status" => pc = "run"
        /\ httpOut.server = "config" => (pc = "setup" /\ ~httpDone)

\* C7 witness: the status reader has waited through a turn that found
\* nothing, and closed a silent connection once 2000 ms were exceeded
C7_Witness ==
    /\ httpOut.served
    /\ httpOut.server = "status"
    /\ Silence(httpOut.conn.script) = HTTP_IDLE_MS + 1
    /\ httpOut.trace = << "wait", "timeout" >>
    /\ httpOut.closedBy = "timeout"
    /\ pc = "run"

\* the decisions a server's reader takes on the turns of a connection
\* accepted at time 0 into an empty buffer
Decisions(server, script) ==
    ReadRequest(server, NewReader(<< >>, 0, 0), script).trace

\* C8: on the same turns of the same connection the configuration reader
\* and the status reader take the same decisions.
C8_SameStateMachine ==
    httpOut.served =>
        Decisions("config", httpOut.conn.script) = Decisions("status", httpOut.conn.script)

\* C9: every position the reader stores a byte or the terminating NUL at
\* lies inside httpRequest.
C9_BoundedLineBuffer ==
    httpOut.served => httpOut.maxStore < HTTP_REQUEST_SIZE

\* C10: after the configuration server has handled a completed line
\* GET /config.html?ssid=S&password=P&community=C (keys in any order) the
\* record holds S, P and C, and saveConfig has been called once.
C10_ConfigRequest ==
    (httpOut.served /\ httpOut.server = "config" /\ httpOut.conn.name = "save") =>
        /\ httpOut.complete
        /\ ~httpOut.fault
        /\ httpOut.saves = 1
        /\ SsidOf(eepromData) = httpOut.conn.vals[1]
        /\ PskOf(eepromData) = httpOut.conn.vals[2]
        /\ CommunityOf(eepromData) = httpOut.conn.vals[3]

\* what getConfig loads from the EEPROM as it is now: the record after a
\* restart
Restarted == GetConfig(eeprom)

\* the record in the EEPROM is one getConfig accepts
StoredValid ==
    /\ EepromSizeOf(Bytes(eeprom, EEPROM_SIZE)) = EEPROM_SIZE
    /\ DataValidOf(Bytes(eeprom, EEPROM_SIZE)) = EEPROM_VALID

\* C11: save and reload round trip.  After saveConfig the record in the
\* EEPROM is accepted by getConfig, and the ssid, password and community
\* getConfig loads from it are those the record held when it was saved.
C11_RoundTrip ==
    (httpOut.served /\ httpOut.saves = 1) =>
        /\ StoredValid
        /\ SsidOf(Restarted) = SsidOf(eepromData)
        /\ PskOf(Restarted) = PskOf(eepromData)
        /\ CommunityOf(Restarted) = CommunityOf(eepromData)

\* the bytes of the three string fields of a record
FieldBytes(m) == SubSeq(Bytes(m, EEPROM_SIZE), SSID_OFF + 1, VALID_OFF)

\* setup() has run getConfig and nothing has changed the record or the
\* EEPROM since
JustLoaded == pc \in { "setup", "run" } /\ conns = 0

\* C12: invalid persisted record.  When the size stored in the EEPROM is
\* not the size of the record, or the marker stored is not EEPROM_VALID,
\* getConfig leaves a record whose ssid, password and community, read as
\* strings, are the compiled-in defaults, marked valid, with the size of
\* the record.
C12_InvalidStoreDefaults ==
    (JustLoaded /\ ~StoredValid) =>
        /\ SsidOf(eepromData) = DEFAULT_SSID
        /\ PskOf(eepromData) = DEFAULT_PSK
        /\ CommunityOf(eepromData) = RO_COMMUNITY
        /\ EepromSizeOf(eepromData) = EEPROM_SIZE
        /\ DataValidOf(eepromData) = EEPROM_VALID

\* C12 witness: a record with the marker and another size was found, and
\* the defaults were loaded
C12_Witness ==
    /\ JustLoaded
    /\ eeprom = OtherSizeFlash
    /\ DataValidOf(eeprom) = EEPROM_VALID
    /\ SsidOf(eeprom) = MyNet
    /\ SsidOf(eepromData) = DEFAULT_SSID

\* C12 as stated: in addition no byte of the three fields is one read from
\* the invalid record, that is, the fields are those of the defaults copied
\* into a record of zeros.
C12_NoStoreByteKept ==
    (JustLoaded /\ ~StoredValid) =>
        /\ C12_InvalidStoreDefaults
        /\ FieldBytes(eepromData) = FieldBytes(LoadDefaults(<< >>))

\* C13: reset to defaults is persisted.  After the configuration server has
\* handled /reset.html the EEPROM holds a valid record whose ssid, password
\* and community are the defaults, so that a restart loads the defaults.
C13_ResetPersisted ==
    (httpOut.served /\ httpOut.server = "config" /\ httpOut.page = "reset") =>
        /\ StoredValid
        /\ SsidOf(Restarted) = DEFAULT_SSID
        /\ PskOf(Restarted) = DEFAULT_PSK
        /\ CommunityOf(Restarted) = RO_COMMUNITY

\* C14: bounded blocking.  Whatever the client does, a status connection
\* that was accepted is closed and loop() is running again some time later.
C14_StatusConnectionCloses == (pc = "reading") ~> (pc = "run")

\* the identifiers of the nodes of the tree
Registered == { mibTree[i].oid : i \in 1 .. Len(mibTree) }

\* sysDescr, sysUpTime and sysLocation
SystemOids == { OidB \o << 1, 1, 0 >>, OidB \o << 1, 3, 0 >>, OidB \o << 1, 6, 0 >> }

\* the address and the temperature of the sensors 1 .. n
SensorOids(n) == { SensorOid(col, k) : col \in { 2, 3 }, k \in 1 .. n }

\* identifiers a manager may ask for: every column of the table for the
\* indices from 0 to past the devices on the bus, the table and its entry,
\* the system group
ProbeOids ==
    { SensorOid(col, k) : col \in 1 .. 4, k \in 0 .. MaxDevices + 1 }
        \cup { SENSOR_OID, SENSOR_OID \o << 3 >> }
        \cup { OidB \o << 1, g, 0 >> : g \in 1 .. 7 }

\* C15: unknown identifiers are not found.  After boot the identifiers
\* registered are the three system objects and SENSOR_OID.2.k and
\* SENSOR_OID.3.k for k in 1 .. numSensors; every other identifier, the
\* sensor objects with k = 0 or k > numSensors among them, resolves to
\* NotFound, also in the answer processSNMP gives.
C15_UnknownNotFound ==
    pc = "run" =>
        /\ Registered = SystemOids \cup SensorOids(numSensors)
        /\ \A oid \in ProbeOids :
               Resolve(mibTree, sensors, oid).found <=>
                   oid \in SystemOids \cup SensorOids(numSensors)
        /\ (snmpResp.asked /\ snmpResp.oid \notin SystemOids \cup SensorOids(numSensors)) =>
               snmpResp.resp = NotFound

\* C15 witness: with two sensors on the bus a manager has asked for the
\* temperature past the end of the table and got NotFound, and the third
\* slot, which holds its initial temperature, is not found either
C15_Witness ==
    /\ pc = "run"
    /\ numSensors = 2
    /\ snmpResp.asked
    /\ snmpResp.oid = SensorOid(3, MAX_SENSORS + 1)
    /\ snmpResp.resp = NotFound
    /\ sensors[2].temperature = 3333
    /\ Resolve(mibTree, sensors, SensorOid(3, 3)) = NotFound

\* C16: every completed request line is recovered locally.  Whatever the
\* line, the handlers of neither server use an absent (null) path, key or
\* value token as a string.
C16_NoNullToken == httpOut.served => ~httpOut.fault

RECURSIVE IdleBefore(_, _)
\* the time a connection has been without a byte at the end of turn k of
\* script: since the byte before, or since the first turn
IdleBefore(script, k) ==
    IF k = 0 THEN 0
    ELSE IF script[k].avail THEN 0
    ELSE script[k].d + IdleBefore(script, k - 1)

\* C17: the idle timeout of the configuration server is not premature.
\* httpWebServer closes a connection for idleness only when the time since
\* the last byte, or since the first turn if there was none, exceeds
\* 2000 ms.
C17_ConfigTimeoutNotPremature ==
    (httpOut.served /\ httpOut.server = "config" /\ httpOut.closedBy = "timeout") =>
        IdleBefore(httpOut.conn.script, Len(httpOut.trace)) > HTTP_IDLE_MS

\* C18: tick ordering.  In every loop() the manager's request is answered
\* from the sensor records as they were before this tick's processSensors,
\* processSensors takes one step of its countdown and changes the
\* temperature of at most one sensor, and processLED takes its one step
\* after it: the LED lit by a read has one of its LED_TICKS ticks behind it.
C18_TickOrdering ==
    [][pc = "run" =>
        /\ snmpResp'.asked =>
               snmpResp'.resp = Resolve(mibTree, sensors, snmpResp'.oid)
        /\ sensorTicks' = IF sensorTicks = 1 THEN SENSOR_TICKS ELSE sensorTicks - 1
        /\ Cardinality({ c \in SensorIdx : sensors'[c] # sensors[c] }) <= 1
        /\ lastRead'.issued => sensorTicks = 1
        /\ ledTicks' = IF sensorTicks = 1 THEN LED_TICKS - 1
                       ELSE IF ledTicks = 0 THEN 0 ELSE ledTicks - 1
    ]_vars

\* C18 witness: in the tick that read 21.5 C from sensor 1 and stored it,
\* the manager asked for that sensor's temperature and was given the value
\* of before
C18_Witness ==
    /\ pc = "run"
    /\ lastRead = [issued |-> TRUE, idx |-> 0, t |-> 2150]
    /\ sensors[0].temperature = 215
    /\ snmpResp.asked
    /\ snmpResp.oid = SensorOid(3, 1)
    /\ snmpResp.resp.found
    /\ snmpResp.resp.value # 215

\* C19: zero sensors.  With numSensors = 0 the call of processSensors that
\* ends the countdown issues no read and, apart from setting the countdown
\* to SENSOR_TICKS again, changes nothing: the sensor records,
\* currentSensor, ledTicks and the LED are as before.
C19_ZeroSensorsFrame ==
    (pc = "run" /\ numSensors = 0 /\ sensorTicks = 1) =>
        \A t \in Readings :
            LET s == ProcessSensors(Sched, t) IN
            /\ ~s.read.issued
            /\ s.sensorTicks = SENSOR_TICKS
            /\ s.sensors = sensors
            /\ s.currentSensor = currentSensor
            /\ s.ledTicks = ledTicks
            /\ s.led = led

\* a turn of a script that delivers a byte
IsByte(ev) == ev.avail

\* the bytes a script delivers, in order
SentBytes(script) ==
    LET turns == SelectSeq(script, IsByte) IN [i \in 1 .. Len(turns) |-> turns[i].c]

Whitespace == { Ascii[" "], CR, LF }

\* the bytes of b before its first space, CR or LF
FirstToken(b) ==
    IF \E i \in 1 .. Len(b) : b[i] \in Whitespace
    THEN SubSeq(b, 1, (CHOOSE i \in 1 .. Len(b) :
                           /\ b[i] \in Whitespace
                           /\ \A j \in 1 .. i - 1 : b[j] \notin Whitespace) - 1)
    ELSE b

\* C20: verb filtering.  A handler has run for a connection (a page was
\* sent or a token was used) only if the first token of the line the client
\* sent is exactly GET.
C20_VerbFiltering ==
    (httpOut.served /\ (httpOut.page # "none" \/ httpOut.fault)) =>
        FirstToken(SentBytes(httpOut.conn.script)) = GET

\* the turns of a script that deliver a newline
Newlines(script) == { i \in 1 .. Len(script) : script[i].avail /\ script[i].c = LF }

\* the decisions of a trace that completed a line
Completions(trace) == { i \in 1 .. Len(trace) : trace[i] = "complete" }

\* C21: one dispatch per connection.  The reader of either server completes
\* at most one line on a connection: the one ended by the first newline the
\* client sent.  That turn is the reader's last on the connection, which
\* is closed by it, and the page sent is the one of that line; what the
\* client sent after its first newline is not read.
C21_OneDispatch ==
    httpOut.served =>
        /\ Cardinality(Completions(httpOut.trace)) <= 1
        /\ httpOut.complete <=> Completions(httpOut.trace) # {}
        /\ httpOut.complete =>
               /\ Completions(httpOut.trace) = { Len(httpOut.trace) }
               /\ Len(httpOut.trace) \in Newlines(httpOut.conn.script)
               /\ \A i \in Newlines(httpOut.conn.script) : Len(httpOut.trace) <= i
               /\ httpOut.closedBy = "dispatch"
        /\ httpOut.conn.name = "twolines" =>
               /\ httpOut.complete
               /\ httpOut.saves = 0
               /\ httpOut.page = IF httpOut.server = "status" THEN "status" ELSE "config"

\* C21 witness: the configuration server has sent the form for GET / and
\* closed, with the line GET /reset.html behind it unread
C21_Witness ==
    /\ httpOut.served
    /\ httpOut.server = "config"
    /\ httpOut.conn.name = "twolines"
    /\ httpOut.page = "config"
    /\ httpOut.closedBy = "dispatch"
    /\ Len(httpOut.trace) < Len(httpOut.conn.script)
    /\ Cardinality(Newlines(httpOut.conn.script)) = 2
    /\ SsidOf(eepromData) = MyNet

\* C22: unmatched keys are ignored.  A /config.html request with the
\* token colour=red before its other tokens is served without fault, the
\* other tokens are applied to their fields, a field the request has no
\* token for keeps its value, and saveConfig is called.
C22_UnmatchedKeyIgnored ==
    [][(httpOut'.served /\ httpOut'.server = "config"
            /\ httpOut'.conn.name \in { "unmatched", "extra" }) =>
        /\ ~httpOut'.fault
        /\ httpOut'.saves = 1
        /\ SsidOf(eepromData') = MyNet
        /\ PskOf(eepromData') = Secret
        /\ CommunityOf(eepromData') =
               IF httpOut'.conn.name = "extra" THEN Private ELSE CommunityOf(eepromData)
    ]_vars

\* C23: per-connection line state.  The line GET alone names no path, so
\* whatever earlier connections left in httpRequest and httpParams no page
\* of the handler table is sent for it and nothing is reset or saved.
C23_NoResidueDispatch ==
    [][(httpOut'.served /\ httpOut'.conn.name = "bare") =>
        /\ httpOut'.page \in { "none", "notfound" }
        /\ httpOut'.saves = 0
        /\ eepromData' = eepromData
    ]_vars

\* C24: activity indication.  The LED is on at the end of a loop() exactly
\* when that loop() or the one before it was the one that ended the
\* countdown: lit by the cycle boundary it stays on for LED_TICKS = 2 tick
\* periods, and it is off at every other time.
C24_LedTwoTicks ==
    [][pc = "run" =>
        (led' = "on" <=> (sensorTicks = 1 \/ (sensorTicks = SENSOR_TICKS /\ led = "on")))
    ]_vars

\* C25: scheduler frame.  A loop() changes no bus address, and no
\* temperature but that of sensors[currentSensor], the cursor being taken
\* before the call; it changes that one only when its processSensors ends
\* the countdown and there is a sensor.  The answer to the manager leaves
\* the records alone.
C25_SchedulerFrame ==
    [][pc = "run" =>
        /\ \A c \in SensorIdx :
               /\ sensors'[c].addr = sensors[c].addr
               /\ c # currentSensor => sensors'[c].temperature = sensors[c].temperature
        /\ (sensorTicks # 1 \/ numSensors = 0) => sensors' = sensors
    ]_vars

\* C25 witness: with two sensors the read of the second has stored
\* -6.2 C in its record; the first keeps the 21.5 C stored a cycle before,
\* the unused records their initial values, and a manager has been answered
\* in the same loop()
C25_Witness ==
    /\ pc = "run"
    /\ numSensors = 2
    /\ lastRead = [issued |-> TRUE, idx |-> 1, t |-> -625]
    /\ sensors[1].temperature = -62
    /\ sensors[0].temperature = 215
    /\ sensors[0].addr = DeviceAddress(0)
    /\ sensors[2].temperature = 3333
    /\ snmpResp.asked

\* the bounds of the scheduler's variables
SchedulerBounds ==
    /\ 1 <= sensorTicks /\ sensorTicks <= SENSOR_TICKS
    /\ numSensors <= MAX_SENSORS
    /\ numSensors = 0 => currentSensor = 0
    /\ numSensors > 0 => (0 <= currentSensor /\ currentSensor < numSensors)

\* C26: scheduler cadence and bounds.  When setup() and when each loop()
\* returns, sensorTicks is in 1 .. SENSOR_TICKS, numSensors is at most
\* MAX_SENSORS and currentSensor is 0 without sensors and below numSensors
\* with them; a loop() issues a sensor read exactly when there is a sensor
\* and the number of the tick is a multiple of SENSOR_TICKS.
C26_CadenceAndBounds ==
    [][pc' = "run" =>
        /\ SchedulerBounds'
        /\ pc = "boot" => (tickInCycle' = 0 /\ sensorTicks' = SENSOR_TICKS)
        /\ pc = "run" => (lastRead'.issued <=> (numSensors > 0 /\ tickInCycle' = 0))
    ]_vars

\* C26 witness: more devices than the table holds were on the bus, the
\* count is MAX_SENSORS, and the read of the last sensor of the table has
\* just been issued, on a tick whose number is a multiple of SENSOR_TICKS
C26_Witness ==
    /\ pc = "run"
    /\ numSensors = MAX_SENSORS
    /\ tickInCycle = 0
    /\ lastRead.issued
    /\ lastRead.idx = MAX_SENSORS - 1
    /\ currentSensor = 0
    /\ sensorTicks = SENSOR_TICKS

\* configurationMode has been entered and the device has not restarted: the
\* configuration server runs, or httpWebServer has returned into the
\* while (1) that follows it
InSetupMode == pc \in { "setup", "halt" }

\* C27: setup mode is absorbing.  Once configurationMode is entered no
\* request served makes setup() go on: the program stays in the
\* configuration server, in the while (1) after it, or stops on a fault
\* (or is followed no further, after a store outside an object),
\* and sensor discovery, the management tree and the tick loop have never
\* been started: no address has been stored, no node registered, no tick
\* taken, no request answered, no sensor read.
C27_SetupAbsorbing ==
    [][/\ InSetupMode => pc' \in { "setup", "halt", "crash", "undefined" }
       /\ InSetupMode' =>
              /\ sensors' = InitialSensors
              /\ mibTree' = << >>
              /\ tickInCycle' = 0
              /\ ~snmpResp'.asked
              /\ ~lastRead'.issued
    ]_vars

\* C27 witness: the configuration server has served a save and then a
\* reset, and is still the program running
C27_Witness ==
    /\ pc = "setup"
    /\ conns >= 2
    /\ httpOut.served
    /\ httpOut.page = "reset"
    /\ StoredValid
    /\ SsidOf(Restarted) = MyNet
    /\ mibTree = << >>

====
